---- MODULE Spec2Model ----
(***************************************************************************)
(* A model of analysis/annotator.py: the driver that prepares the          *)
(* workspace /tmp/ucr-tainting/opencms-opt and launches the annotator jar. *)
(*                                                                         *)
(* The script runs top to bottom: lines 9 and 10 resolve the jar path and  *)
(* the repository root, line 41 calls run_annotator(), which calls         *)
(* prepare() (lines 14-17), builds the argument vector (lines 22-36) and   *)
(* blocks in subprocess.call (line 38).                                    *)
(*                                                                         *)
(* The file system the script touches, the environment it resolves from    *)
(* and the child process are the environment of the model.  A failure of   *)
(* a system call is decided by the state of the file system, as it is on   *)
(* a real machine: makedirs fails on a path that is a regular file or      *)
(* below a directory that cannot be written, rmtree fails on a directory   *)
(* whose entries cannot be unlinked, open(.., 'w') fails on a read-only    *)
(* file.                                                                    *)
(***************************************************************************)
EXTENDS Integers, Sequences, FiniteSets, TLC

VARIABLES fs, fs0, env, cfg, pc, err, jar, repo, cmd, proc, wrote, status, ret, exitCode, ignored, tw, after1

vars == <<fs, fs0, env, cfg, pc, err, jar, repo, cmd, proc, wrote, status, ret, exitCode, ignored, tw, after1>>

(***************************************************************************)
(* Bounds of the model.                                                    *)
(***************************************************************************)
\* iteration depths 1..MaxDepth are tried besides "no depth limit"
MaxDepth == 1
\* the child process exits with a status in 0..MaxStatus
MaxStatus == 2

\* The runs of the script.  Spec executes MainRun alone; SpecTwoRuns executes both.
Runs == {"r1", "r2"}
MainRun == "r1"

(***************************************************************************)
(* Module-level constants of the script (lines 6-9).                       *)
(***************************************************************************)
VERSION == "1.3.8-SNAPSHOT"
BENCHMARK == "opencms-opt"
OUT_DIR == "/tmp/ucr-tainting/" \o BENCHMARK

AnnotatorJar(home) == home \o "/.m2/repository/edu/ucr/cs/riple/annotator/annotator-core/" \o VERSION \o "/annotator-core-" \o VERSION \o ".jar"

\* '{}/paths.tsv'.format(w), '{}/taint.xml'.format(w), '{}/scanner.xml'.format(w)
ManifestPath(w) == w \o "/paths.tsv"
TaintPath(w) == w \o "/taint.xml"
ScannerPath(w) == w \o "/scanner.xml"

\* "{}\t{}\n".format(taint, scanner): the single line prepare() writes
ManifestLine(w) == TaintPath(w) \o "\t" \o ScannerPath(w) \o "\n"

(***************************************************************************)
(* The file system under OUT_DIR.                                          *)
(*   ws        what OUT_DIR is: "absent", a "dir" or a regular "file"      *)
(*   creatable whether OUT_DIR's ancestors allow creating it               *)
(*   zero      OUT_DIR/0: "absent", a removable "dir", or "locked" (a      *)
(*             directory whose entries the user may not unlink)            *)
(*   files     the regular files in OUT_DIR: path -> content               *)
(*   ro        the files among them that may not be written                *)
(***************************************************************************)
NoFiles == [p \in {} |-> ""]

\* what a manifest left by an earlier use of the directory may hold
OldContents == {ManifestLine(OUT_DIR), ManifestLine("/tmp/run/opencms"), ManifestLine(OUT_DIR) \o ManifestLine(OUT_DIR) \o "# stale\n"}

FsStates ==
    {[ws |-> "absent", creatable |-> c, zero |-> "absent", files |-> NoFiles, ro |-> {}] : c \in BOOLEAN}
    \cup {[ws |-> "file", creatable |-> TRUE, zero |-> "absent", files |-> NoFiles, ro |-> {}]}
    \cup {[ws |-> "dir", creatable |-> TRUE, zero |-> z, files |-> NoFiles, ro |-> {}] : z \in {"absent", "dir", "locked"}}
    \cup {[ws |-> "dir", creatable |-> TRUE, zero |-> z, files |-> (ManifestPath(OUT_DIR) :> c), ro |-> r] :
             z \in {"absent", "dir", "locked"}, c \in OldContents, r \in {{}, {ManifestPath(OUT_DIR)}}}

\* os.makedirs(OUT_DIR, exist_ok=True): result [ok, fs]
Makedirs(f) ==
    CASE f.ws = "dir" -> [ok |-> TRUE, fs |-> f]
      [] f.ws = "file" -> [ok |-> FALSE, fs |-> f]
      [] OTHER -> IF f.creatable THEN [ok |-> TRUE, fs |-> [f EXCEPT !.ws = "dir"]]
                                 ELSE [ok |-> FALSE, fs |-> f]

\* shutil.rmtree(OUT_DIR/0, ignore_errors=True): result [ok, fs].  A missing
\* directory and a directory that cannot be removed both leave the disk as
\* it is; ok tells whether an error was met, and the caller never sees it
Rmtree(f) ==
    CASE f.zero = "dir" -> [ok |-> TRUE, fs |-> [f EXCEPT !.zero = "absent"]]
      [] f.zero = "locked" -> [ok |-> FALSE, fs |-> f]
      [] OTHER -> [ok |-> TRUE, fs |-> f]

\* OpenW as open(p, 'a') would behave: the file keeps what it held
OpenKeep(f, p) ==
    CASE f.ws # "dir" -> [ok |-> FALSE, fs |-> f]
      [] p \in f.ro -> [ok |-> FALSE, fs |-> f]
      [] OTHER -> [ok |-> TRUE, fs |-> [f EXCEPT !.files = f.files @@ (p :> "")]]

\* open(p, 'w'): creates or truncates p; result [ok, fs]
OpenW(f, p) ==
    CASE f.ws # "dir" -> [ok |-> FALSE, fs |-> f]
      [] p \in f.ro -> [ok |-> FALSE, fs |-> f]
      [] OTHER -> [ok |-> TRUE, fs |-> [f EXCEPT !.files = (p :> "") @@ f.files]]

\* o.write(data) and the close of the with block: data lands at offset 0 of
\* the file opened by OpenW
WriteAt0(f, p, data) ==
    IF p \notin DOMAIN f.files THEN f
    ELSE LET old == f.files[p]
             rest == IF Len(old) > Len(data) THEN SubSeq(old, Len(data) + 1, Len(old)) ELSE ""
         IN [f EXCEPT !.files = (p :> (data \o rest)) @@ f.files]

(***************************************************************************)
(* The environment the script resolves from.                               *)
(*   homeOk  Path.home() finds a home directory (line 9)                   *)
(*   gitOk   git rev-parse --show-toplevel succeeds (line 10)              *)
(*   javaOk  a java launcher is on PATH (line 38 can spawn the child)      *)
(*   jarOk   the annotator jar is present at ANNOTATOR_JAR                 *)
(***************************************************************************)
HOME == "/root"
TOP == "/work/opencms-core"

Envs == [homeOk : BOOLEAN, gitOk : BOOLEAN, javaOk : BOOLEAN, jarOk : BOOLEAN]
EnvOk == [homeOk |-> TRUE, gitOk |-> TRUE, javaOk |-> TRUE, jarOk |-> TRUE]

(***************************************************************************)
(* The run configuration: which of the optional `commands +=` lines        *)
(* (30, 32, 34, 36) are live.  depth = 0 stands for "no --depth line".     *)
(* The script as committed is SourceConfig: line 30 with depth 1, line 34  *)
(* live, lines 32 and 36 commented out.                                    *)
(***************************************************************************)
Configs == [depth : 0..MaxDepth, outerLoop : BOOLEAN, parallel : BOOLEAN, showOutput : BOOLEAN]
SourceConfig == [depth |-> 1, outerLoop |-> FALSE, parallel |-> TRUE, showOutput |-> FALSE]

\* DepthFlag with the value left out
DepthFlagBare(c) == IF c.depth # 0 THEN <<"--depth">> ELSE <<>>

\* line 30: commands += ["--depth", "1"]
DepthFlag(c) == IF c.depth # 0 THEN <<"--depth", ToString(c.depth)>> ELSE <<>>
\* line 32: commands += ['-rboserr']
BuildOutputFlag(c) == IF c.showOutput THEN <<"-rboserr">> ELSE <<>>
\* line 34: commands += ['-dol']
OuterLoopFlag(c) == IF ~c.outerLoop THEN <<"-dol">> ELSE <<>>
\* ParallelFlag keyed on the outer-loop toggle
ParallelFlagByOuterLoop(c) == IF ~c.outerLoop THEN <<"--disable-parallel-processing">> ELSE <<>>

\* line 36: commands += ['--disable-parallel-processing']
ParallelFlag(c) == IF ~c.parallel THEN <<"--disable-parallel-processing">> ELSE <<>>

\* Commands with -cp naming a manifest inside the iteration directory
CommandsOtherManifest(j, top, c) ==
    <<"java", "-jar", j>>
    \o <<"-d", OUT_DIR>>
    \o <<"-bc", "cd " \o top \o " && ./gradlew compileJava">>
    \o <<"-cp", ManifestPath(OUT_DIR \o "/0")>>
    \o <<"-i", "edu.ucr.Initializer">>
    \o <<"-n", "edu.ucr.cs.riple.taint.ucrtainting.qual.RUntainted">>
    \o <<"-cn", "UCRTaint">>
    \o DepthFlag(c)
    \o BuildOutputFlag(c)
    \o OuterLoopFlag(c)
    \o ParallelFlag(c)

\* lines 22-36: the argument vector, in the order the lines append to it
Commands(j, top, c) ==
    <<"java", "-jar", j>>
    \o <<"-d", OUT_DIR>>
    \o <<"-bc", "cd " \o top \o " && ./gradlew compileJava">>
    \o <<"-cp", ManifestPath(OUT_DIR)>>
    \o <<"-i", "edu.ucr.Initializer">>
    \o <<"-n", "edu.ucr.cs.riple.taint.ucrtainting.qual.RUntainted">>
    \o <<"-cn", "UCRTaint">>
    \o DepthFlag(c)
    \o BuildOutputFlag(c)
    \o OuterLoopFlag(c)
    \o ParallelFlag(c)

(***************************************************************************)
(* One run of the script.  pc[r] is the line the run is at, err[r] the     *)
(* call whose exception ended it, ignored[r] whether line 15 met an error  *)
(* that ignore_errors=True discarded.                                      *)
(***************************************************************************)
\* an uncaught exception: the interpreter prints the traceback and exits 1
Abort(r, why) ==
    /\ pc' = [pc EXCEPT ![r] = "aborted"]
    /\ err' = [err EXCEPT ![r] = why]
    /\ exitCode' = [exitCode EXCEPT ![r] = 1]

Goto(r, where) ==
    /\ pc' = [pc EXCEPT ![r] = where]
    /\ UNCHANGED <<err, exitCode>>

\* line 9: ANNOTATOR_JAR = "...".format(str(Path.home()), VERSION, VERSION)
ResolveJar(r) ==
    /\ pc[r] = "start"
    /\ IF env.homeOk
       THEN jar' = [jar EXCEPT ![r] = AnnotatorJar(HOME)] /\ Goto(r, "git")
       ELSE jar' = jar /\ Abort(r, "home")
    /\ UNCHANGED <<fs, fs0, env, cfg, repo, cmd, proc, wrote, status, ret, ignored, tw, after1>>

\* line 10: REPO = subprocess.check_output(['git', 'rev-parse', '--show-toplevel'])...
ResolveRepo(r) ==
    /\ pc[r] = "git"
    /\ IF env.gitOk
       THEN repo' = [repo EXCEPT ![r] = TOP] /\ Goto(r, "makedirs")
       ELSE repo' = repo /\ Abort(r, "git")
    /\ UNCHANGED <<fs, fs0, env, cfg, jar, cmd, proc, wrote, status, ret, ignored, tw, after1>>

\* line 14: os.makedirs(OUT_DIR, exist_ok=True)
PrepMakedirs(r) ==
    /\ pc[r] = "makedirs"
    /\ LET m == Makedirs(fs)
       IN /\ fs' = m.fs
          /\ IF m.ok THEN Goto(r, "rmtree") ELSE Abort(r, "makedirs")
    /\ UNCHANGED <<fs0, env, cfg, jar, repo, cmd, proc, wrote, status, ret, ignored, tw, after1>>

\* line 15: shutil.rmtree('{}/0'.format(OUT_DIR), ignore_errors=True)
PrepRmtree(r) ==
    /\ pc[r] = "rmtree"
    /\ LET m == Rmtree(fs)
       IN /\ fs' = m.fs
          /\ ignored' = [ignored EXCEPT ![r] = ~m.ok]
    /\ Goto(r, "open")
    /\ UNCHANGED <<fs0, env, cfg, jar, repo, cmd, proc, wrote, status, ret, tw, after1>>

\* line 16: with open('{}/paths.tsv'.format(OUT_DIR), 'w') as o:
PrepOpen(r) ==
    /\ pc[r] = "open"
    /\ LET o == OpenW(fs, ManifestPath(OUT_DIR))
       IN /\ fs' = o.fs
          /\ IF o.ok THEN Goto(r, "write") ELSE Abort(r, "open")
    /\ UNCHANGED <<fs0, env, cfg, jar, repo, cmd, proc, wrote, status, ret, ignored, tw, after1>>

\* line 17: o.write("{}\t{}\n".format(...)), and the with block closes the file
PrepWrite(r) ==
    /\ pc[r] = "write"
    /\ fs' = WriteAt0(fs, ManifestPath(OUT_DIR), ManifestLine(OUT_DIR))
    /\ Goto(r, "build")
    /\ UNCHANGED <<fs0, env, cfg, jar, repo, cmd, proc, wrote, status, ret, ignored, tw, after1>>

\* lines 22-36
Build(r) ==
    /\ pc[r] = "build"
    /\ cmd' = [cmd EXCEPT ![r] = Commands(jar[r], repo[r], cfg)]
    /\ Goto(r, "call")
    /\ UNCHANGED <<fs, fs0, env, cfg, jar, repo, proc, wrote, status, ret, ignored, tw, after1>>

\* line 38, the spawn: subprocess.call raises FileNotFoundError when there is
\* no java to execute
Call(r) ==
    /\ pc[r] = "call"
    /\ IF env.javaOk
       THEN proc' = [proc EXCEPT ![r] = "running"] /\ Goto(r, "wait")
       ELSE proc' = proc /\ Abort(r, "spawn")
    /\ UNCHANGED <<fs, fs0, env, cfg, jar, repo, cmd, wrote, status, ret, ignored, tw, after1>>

\* the child of line 38 while it runs: the annotator keeps its iteration
\* state in OUT_DIR/0, creating the directory when it is not there
ProcWrite(r) ==
    /\ proc[r] = "running"
    /\ env.jarOk
    /\ fs.ws = "dir"
    /\ fs' = [fs EXCEPT !.zero = IF @ = "absent" THEN "dir" ELSE @]
    /\ wrote' = [wrote EXCEPT ![r] = TRUE]
    /\ UNCHANGED <<fs0, env, cfg, pc, err, jar, repo, cmd, proc, status, ret, exitCode, ignored, tw, after1>>

\* the child exits; java exits 1 when it cannot read the jar
ProcExit(r) ==
    /\ proc[r] = "running"
    /\ \E s \in 0..MaxStatus :
          /\ env.jarOk \/ s = 1
          /\ status' = [status EXCEPT ![r] = s]
    /\ proc' = [proc EXCEPT ![r] = "exited"]
    /\ UNCHANGED <<fs, fs0, env, cfg, pc, err, jar, repo, cmd, wrote, ret, exitCode, ignored, tw, after1>>

\* CallReturns as subprocess.Popen would behave: no wait for the child
CallReturnsAtOnce(r) == proc[r] \in {"running", "exited"}

\* subprocess.call waits for the child
CallReturns(r) == proc[r] = "exited"

\* line 38, the return: the value of subprocess.call is dropped, run_annotator
\* returns None (it has no return statement), and the script ends at line 41
\* with the interpreter's exit status 0
Wait(r) ==
    /\ pc[r] = "wait"
    /\ CallReturns(r)
    /\ ret' = [ret EXCEPT ![r] = "None"]
    /\ pc' = [pc EXCEPT ![r] = "done"]
    /\ exitCode' = [exitCode EXCEPT ![r] = 0]
    /\ UNCHANGED <<fs, fs0, env, cfg, err, jar, repo, cmd, proc, wrote, status, ignored, tw, after1>>

Step(r) ==
    \/ ResolveJar(r)
    \/ ResolveRepo(r)
    \/ PrepMakedirs(r)
    \/ PrepRmtree(r)
    \/ PrepOpen(r)
    \/ PrepWrite(r)
    \/ Build(r)
    \/ Call(r)
    \/ ProcWrite(r)
    \/ ProcExit(r)
    \/ Wait(r)

\* the state every run starts in
RunInit ==
    /\ pc = [r \in Runs |-> "start"]
    /\ err = [r \in Runs |-> "none"]
    /\ jar = [r \in Runs |-> ""]
    /\ repo = [r \in Runs |-> ""]
    /\ cmd = [r \in Runs |-> <<>>]
    /\ proc = [r \in Runs |-> "none"]
    /\ wrote = [r \in Runs |-> FALSE]
    /\ status = [r \in Runs |-> 0]
    /\ ret = [r \in Runs |-> ""]
    /\ exitCode = [r \in Runs |-> 0]
    /\ ignored = [r \in Runs |-> FALSE]
    /\ after1 = fs

\* one run of the script, on any disk, in any environment, in any configuration
Init ==
    /\ fs \in FsStates
    /\ fs0 = fs
    /\ env \in Envs
    /\ cfg \in Configs
    /\ RunInit
    /\ tw = [pc |-> "idle", round |-> 0]

Next == Step(MainRun)

Spec == Init /\ [][Next]_vars

(***************************************************************************)
(* Two runs of the script on the same workspace, started at any time: the  *)
(* script takes no lock, so nothing orders the steps of one run against    *)
(* those of the other.                                                     *)
(***************************************************************************)
InitTwoRuns ==
    /\ fs \in FsStates
    /\ fs0 = fs
    /\ env = EnvOk
    /\ cfg = SourceConfig
    /\ RunInit
    /\ tw = [pc |-> "idle", round |-> 0]

NextTwoRuns == \E r \in Runs : Step(r)

SpecTwoRuns == InitTwoRuns /\ [][NextTwoRuns]_vars

(***************************************************************************)
(* prepare() called twice in a row, with nothing else touching the disk.   *)
(* tw.pc is the line of prepare() the current call is at, tw.round the     *)
(* call; after1 is the disk as the first call left it.  A call ends when   *)
(* line 17 is done or when a line raises.                                  *)
(***************************************************************************)
TwEnd ==
    IF tw.round = 1
    THEN tw' = [pc |-> "makedirs", round |-> 2] /\ after1' = fs'
    ELSE tw' = [pc |-> "done", round |-> 2] /\ after1' = after1

TwGoto(where) == tw' = [tw EXCEPT !.pc = where] /\ after1' = after1

TwMakedirs ==
    /\ tw.pc = "makedirs"
    /\ LET m == Makedirs(fs)
       IN /\ fs' = m.fs
          /\ IF m.ok THEN TwGoto("rmtree") ELSE TwEnd
    /\ UNCHANGED <<fs0, env, cfg, pc, err, jar, repo, cmd, proc, wrote, status, ret, exitCode, ignored>>

TwRmtree ==
    /\ tw.pc = "rmtree"
    /\ fs' = Rmtree(fs).fs
    /\ TwGoto("open")
    /\ UNCHANGED <<fs0, env, cfg, pc, err, jar, repo, cmd, proc, wrote, status, ret, exitCode, ignored>>

TwOpen ==
    /\ tw.pc = "open"
    /\ LET o == OpenW(fs, ManifestPath(OUT_DIR))
       IN /\ fs' = o.fs
          /\ IF o.ok THEN TwGoto("write") ELSE TwEnd
    /\ UNCHANGED <<fs0, env, cfg, pc, err, jar, repo, cmd, proc, wrote, status, ret, exitCode, ignored>>

TwWrite ==
    /\ tw.pc = "write"
    /\ fs' = WriteAt0(fs, ManifestPath(OUT_DIR), ManifestLine(OUT_DIR))
    /\ TwEnd
    /\ UNCHANGED <<fs0, env, cfg, pc, err, jar, repo, cmd, proc, wrote, status, ret, exitCode, ignored>>

InitTwice ==
    /\ fs \in FsStates
    /\ fs0 = fs
    /\ env = EnvOk
    /\ cfg = SourceConfig
    /\ RunInit
    /\ tw = [pc |-> "makedirs", round |-> 1]

NextTwice == TwMakedirs \/ TwRmtree \/ TwOpen \/ TwWrite

SpecTwice == InitTwice /\ [][NextTwice]_vars

(***************************************************************************)
(* Properties.                                                             *)
(***************************************************************************)
\* the run has built its argument vector
Built(r) == Len(cmd[r]) > 0

Has(seq, tok) == \E i \in DOMAIN seq : seq[i] = tok
Count(seq, tok) == Cardinality({i \in DOMAIN seq : seq[i] = tok})
IdxOf(seq, tok) == IF Has(seq, tok) THEN CHOOSE i \in DOMAIN seq : seq[i] = tok /\ \A k \in 1..(i - 1) : seq[k] # tok ELSE 0
\* when both tokens occur, a comes before b
Before(seq, a, b) == (Has(seq, a) /\ Has(seq, b)) => IdxOf(seq, a) < IdxOf(seq, b)

ZeroPresent(f) == f.zero # "absent"
ManifestOf(f) == IF ManifestPath(OUT_DIR) \in DOMAIN f.files THEN f.files[ManifestPath(OUT_DIR)] ELSE "<no file>"

\* C1: prepare() is idempotent: after two calls in a row the disk is as the
\* first call left it, the manifest is byte-identical after both calls, and
\* no "0" subdirectory is there after either call.
C1_PrepareIdempotent ==
    tw.pc = "done" =>
        /\ fs = after1
        /\ ManifestOf(fs) = ManifestOf(after1)
        /\ ~ZeroPresent(after1)
        /\ ~ZeroPresent(fs)

\* C2: when the run dispatches the external process, the Preparer has
\* completed: the workspace directory exists, no "0" subdirectory of an
\* earlier run exists, and the manifest file exists.
C2_PreparedAtDispatch ==
    \A r \in Runs : pc[r] = "call" =>
        /\ fs.ws = "dir"
        /\ ~ZeroPresent(fs)
        /\ ManifestPath(OUT_DIR) \in DOMAIN fs.files

\* C3: when prepare() has run to its end with workspace W = OUT_DIR, the
\* manifest W/paths.tsv holds exactly the one line
\* "W/taint.xml<TAB>W/scanner.xml<NEWLINE>", whatever it held before.
C3_ManifestContent ==
    \A r \in Runs : pc[r] = "build" =>
        /\ ManifestPath(OUT_DIR) \in DOMAIN fs.files
        /\ fs.files[ManifestPath(OUT_DIR)] = OUT_DIR \o "/taint.xml" \o "\t" \o OUT_DIR \o "/scanner.xml" \o "\n"

\* C3's case: prepare() has completed on a disk whose manifest held other,
\* longer content
C3_Witness ==
    /\ pc[MainRun] = "build"
    /\ ManifestPath(OUT_DIR) \in DOMAIN fs0.files
    /\ Len(fs0.files[ManifestPath(OUT_DIR)]) > Len(ManifestLine(OUT_DIR))

\* the part of the argument vector every configuration shares: the launch
\* prefix and the six flag/value pairs, -cp naming the file prepare() wrote
FixedPart(r) ==
    /\ Len(cmd[r]) >= 15
    /\ SubSeq(cmd[r], 1, 3) = <<"java", "-jar", jar[r]>>
    /\ SubSeq(cmd[r], 4, 5) = <<"-d", OUT_DIR>>
    /\ SubSeq(cmd[r], 6, 7) = <<"-bc", "cd " \o repo[r] \o " && ./gradlew compileJava">>
    /\ cmd[r][8] = "-cp"
    /\ cmd[r][9] \in DOMAIN fs.files
    /\ fs.files[cmd[r][9]] = ManifestLine(OUT_DIR)
    /\ SubSeq(cmd[r], 10, 11) = <<"-i", "edu.ucr.Initializer">>
    /\ SubSeq(cmd[r], 12, 13) = <<"-n", "edu.ucr.cs.riple.taint.ucrtainting.qual.RUntainted">>
    /\ SubSeq(cmd[r], 14, 15) = <<"-cn", "UCRTaint">>

OptionalPart(r) == SubSeq(cmd[r], 16, Len(cmd[r]))

\* the optional part holds the four optional flags and the depth value only
OnlyOptionalFlags(r) ==
    LET t == OptionalPart(r)
    IN \A i \in DOMAIN t :
          \/ t[i] \in {"--depth", "-rboserr", "-dol", "--disable-parallel-processing"}
          \/ i > 1 /\ t[i - 1] = "--depth"

C5_DepthFlag ==
    \A r \in Runs : Built(r) =>
        IF cfg.depth = 0
        THEN Count(cmd[r], "--depth") = 0
        ELSE /\ Count(cmd[r], "--depth") = 1
             /\ IdxOf(cmd[r], "--depth") < Len(cmd[r])
             /\ cmd[r][IdxOf(cmd[r], "--depth") + 1] = ToString(cfg.depth)
             /\ cfg.depth = 1 => cmd[r][IdxOf(cmd[r], "--depth") + 1] = "1"

\* C5's case: a command built with iteration depth 1
C5_Witness == Built(MainRun) /\ cfg.depth = 1 /\ Has(cmd[MainRun], "--depth")

\* C6: -dol is in the command iff the outer loop is disabled, and
\* --disable-parallel-processing is in it iff parallel processing is disabled.
C6_DisableFlags ==
    \A r \in Runs : Built(r) =>
        /\ Has(cmd[r], "-dol") <=> ~cfg.outerLoop
        /\ Has(cmd[r], "--disable-parallel-processing") <=> ~cfg.parallel

\* C6's case: outer loop disabled, parallel processing enabled
C6_Witness ==
    /\ Built(MainRun)
    /\ ~cfg.outerLoop
    /\ cfg.parallel
    /\ Has(cmd[MainRun], "-dol")

\* C7: the run ends with the exit status of the external process, and
\* run_annotator returns that status to its caller.
C7_ExitStatusSurfaced ==
    \A r \in Runs : pc[r] = "done" =>
        /\ exitCode[r] = status[r]
        /\ ret[r] = ToString(status[r])

\* C8: a workspace error during preparation (creating the directory,
\* removing the stale "0", writing the manifest) ends the run before any
\* external process is spawned.
C8_WorkspaceErrorsFatal ==
    \A r \in Runs : (err[r] \in {"makedirs", "open"} \/ ignored[r]) =>
        /\ pc[r] = "aborted"
        /\ proc[r] = "none"

\* the run could not locate the repository root or the analyzer executable
ResolutionFailed(r) ==
    \/ err[r] \in {"home", "git", "spawn"}
    \/ ~env.jarOk /\ proc[r] = "exited"

\* C9: a run whose resolution fails leaves the workspace exactly as it was
\* and spawns no external process.
C9_ResolutionBeforeMutation ==
    \A r \in Runs : ResolutionFailed(r) =>
        /\ fs = fs0
        /\ proc[r] = "none"

\* the run is under way: started and not yet ended
Active(r) == pc[r] \notin {"start", "done", "aborted"}

\* C10: a Preparer can be at work on the workspace while the external process
\* of another run is still running only when the two runs overlap; runs
\* executed strictly one after another never get there.
C10_RaceNeedsOverlap ==
    \A i \in Runs : \A j \in Runs \ {i} :
        (proc[i] = "running" /\ pc[j] \in {"makedirs", "rmtree", "open", "write", "build"}) => Active(i)

\* C10's case: the later run's prepare() has just removed the "0" directory
\* the earlier run's external process created and is still working in
C10_Witness ==
    \E i \in Runs : \E j \in Runs \ {i} :
        /\ proc[i] = "running"
        /\ wrote[i]
        /\ pc[j] = "open"
        /\ ~ZeroPresent(fs)

====
